---------------------------- MODULE Spec2Model ----------------------------
(***************************************************************************)
(* Credential-resolution workflow of the Safeguard helper scripts:         *)
(*   certkey  bin/certkey_to_bearer_get_apikey_print_stdout.py             *)
(*   scruf    bin/scruf.py                                                 *)
(*   plugin   bin/plugin.py   (lookup spp_apikey)                          *)
(*   p1       bin/p1.py       (lookup spp_apikey, older variant)           *)
(*   plugin2  bin/plugin2.py  (lookup spp_bootstrap_find_get)              *)
(*                                                                         *)
(* Each program is a sequential client.  One action is one HTTP request    *)
(* together with everything the program does with the response up to the   *)
(* next request (or up to termination).  The appliance is the environment: *)
(* every response is chosen nondeterministically from a finite alphabet.   *)
(*                                                                         *)
(* JSON values.  Scalars are strings; Python None (an absent key or a JSON *)
(* null, which dict.get does not distinguish) is the reserved token None.  *)
(* A JSON object is a record holding, for each key the programs read, the  *)
(* result of .get(key); the field obj is FALSE for a value that is not a   *)
(* JSON object (any .get on it raises AttributeError).  A nested           *)
(* sub-object X with key K is the field X_K = (o.get(X) or {}).get(K).     *)
(***************************************************************************)
EXTENDS Integers, Sequences, FiniteSets, TLC

None == "<None>"

\* Python truthiness of a scalar: None and the empty string are falsy.
Truthy(v) == v # None /\ v # ""

\* Python `a or b`.
Or(a, b) == IF Truthy(a) THEN a ELSE b

-----------------------------------------------------------------------------
\* Bounds of the exploration.

\* The appliance serves at most this many non-empty pages of one listing.
MaxPages == 2

\* Entries on one page of retrievable accounts.
MaxPageLen == 2

-----------------------------------------------------------------------------
\* Program constants.

CkLimit == 100
ScLimit == 100
PlLimit == 200
P2BootLimit == 1
P2Limit == 500

\* The requested (system, account): sys.argv[5:7] / kwargs system, account.
SysName == "db01"
AcctName == "svc_app"

Progs == {"certkey", "scruf", "plugin", "p1", "plugin2"}

-----------------------------------------------------------------------------
\* Responses of the appliance.  sc = 0 stands for a transport failure (the
\* HTTP library raises instead of returning a response).  shape is the shape
\* of the decoded body; body holds the object (one element) or the list.

Resp(sc, shape, body) == [sc |-> sc, shape |-> shape, body |-> body]

Exc == Resp(0, "none", <<>>)
Http(sc) == Resp(sc, "nonjson", <<>>)
NonJson == Resp(200, "nonjson", <<>>)
Scalar == Resp(200, "scalar", <<>>)
Obj(o) == Resp(200, "obj", <<o>>)
List(l) == Resp(200, "list", l)

\* Sequences over S of length lo..hi.
SeqsOf(S, lo, hi) == UNION {[1..n -> S] : n \in lo..hi}

\* --- token endpoints (certkey) ---
TokObj(at, ut, ut2, e, f) ==
    [obj |-> TRUE, access_token |-> at, UserToken |-> ut, user_token |-> ut2,
     error |-> e, found |-> f]

StsObjs == { TokObj("sts", None, None, None, None),
             TokObj(None, None, None, None, None),
             TokObj("", None, None, "invalid_client", None),
             TokObj(None, None, None, "denied", "True") }

LoginObjs == { TokObj(None, "bearer", None, None, None),
               TokObj(None, None, "bearer", None, None),
               TokObj(None, None, None, None, None),
               TokObj(None, "", None, "denied", "True") }

\* --- identity payloads ---
Ident(id, id2, uid, app, appid, regid, appsub) ==
    [obj |-> TRUE, Id |-> id, ID |-> id2, UserId |-> uid, AppId |-> app,
     ApplicationId |-> appid, RegistrationId |-> regid, Application_Id |-> appsub]

IdentRegOnly == Ident(None, None, None, None, None, "7", None)
IdentAll     == Ident("5", None, None, None, None, "7", "3")
IdentDup     == Ident("7", None, "7", None, None, None, None)
IdentApp     == Ident("5", None, None, "3", None, None, None)
IdentEmpty   == Ident(None, None, None, None, None, None, None)

Idents == {IdentRegOnly, IdentAll, IdentDup, IdentApp, IdentEmpty}

\* --- registrations ---
Reg(id, id2, app) == [obj |-> TRUE, Id |-> id, ID |-> id2, AppName |-> app]
NotObjReg == [obj |-> FALSE, Id |-> None, ID |-> None, AppName |-> None]

Reg7     == Reg("7", None, "app7")
Reg8     == Reg(None, "8", None)
RegNoId  == Reg(None, None, "anon")
RegEmpty == Reg(None, None, None)

\* A dict is falsy exactly when it has no keys.
RegTruthy(r) == r.obj => (r.Id # None \/ r.ID # None \/ r.AppName # None)

\* --- retrievable accounts ---
RA(an, asub, cn, csub, k) ==
    [obj |-> TRUE, AssetName |-> an, Asset_Name |-> asub,
     AccountName |-> cn, Account_Name |-> csub, ApiKey |-> k]

EMatch1   == RA("db01", None, "svc_app", None, "k1")
EMatch2   == RA(None, "db01", None, "svc_app", "k2")
ENoKey    == RA("db01", None, "svc_app", None, None)
EEmptyKey == RA("db01", None, "svc_app", None, "")
EOther    == RA("web02", "db01", "svc_app", None, "k3")
ECase     == RA("DB01", None, "svc_app", None, "k4")
EBlank    == RA("", "db01", "svc_app", None, "k5")
ENotObj   == [obj |-> FALSE, AssetName |-> None, Asset_Name |-> None,
              AccountName |-> None, Account_Name |-> None, ApiKey |-> None]

\* str.lower() on the modelled strings.
Lower(s) == IF s = "DB01" THEN "db01" ELSE s


-----------------------------------------------------------------------------
VARIABLES
    prog,       \* which program runs
    focus,      \* which stage of the run the appliance answers with its full alphabet
    argsOk,     \* the command line / keyword arguments pass the program's validation
    override,   \* scruf: env REG_ID; plugin2: bootstrap_registration_id; else None
    regIndex,   \* plugins: registration_index / bootstrap_registration_index
    retfmt,     \* plugin, p1: return format
    terms,      \* plugin2: positional terms
    secretKw,   \* plugin2: kwargs secret_type
    pc,         \* position of the program
    idx,        \* loop index (identity candidate, id, filter, registration)
    ident,      \* identity payload (certkey ident, scruf whoami)
    reg,        \* the registration object selected
    reg_id,     \* the registration id enumerated
    source,     \* scruf: the strategy that produced reg
    page,       \* page index of the next RetrievableAccounts request
    regs_ids,   \* plugin2: registration ids to search
    bootKey,    \* plugin2: bootstrap ApiKey
    final_api_key, \* plugin2: the ApiKey of the matched entry
    log,        \* every request sent so far, with the status and shape of its response
    pages,      \* bodies of the list responses of the enumeration, in order
    out         \* everything emitted: status events and final records

vars == <<prog, focus, argsOk, override, regIndex, retfmt, terms, secretKw, pc, idx,
          ident, reg, reg_id, source, page, regs_ids, bootKey, final_api_key, log, pages,
          out>>

inputs == <<prog, focus, argsOk, override, regIndex, retfmt, terms, secretKw>>

Foci == {"front", "resolve", "keys", "names"}

-----------------------------------------------------------------------------
\* The log.

Req(ep, arg, rel, pg, lim) ==
    [ep |-> ep, arg |-> arg, rel |-> rel, page |-> pg, limit |-> lim, key |-> None]

\* The same request carrying "Authorization: A2A <k>".
A2A(rq, k) == [rq EXCEPT !.key = k]

\* Endpoints answering with registrations.
RegEps == {"A2ARegistrations/{id}", "A2ARegistrations?filter", "A2ARegistrations"}

\* The Id (or ID) of the registration at the head of a response to a RegEps request.
HeadId(r) ==
    IF r.shape \in {"obj", "list"} /\ Len(r.body) > 0 /\ r.body[1].obj
    THEN Or(r.body[1].Id, r.body[1].ID) ELSE None

\* The endpoints that list registrations.
ListEps ==
    {"A2ARegistrations", "A2ARegistrations?filter", "a2a/v4/Registrations",
     "a2a/v4/registrations"}

\* A log entry: the request, and the status, shape and head id of its response;
\* for a listing of registrations, the list itself.
LogE(rq, r) ==
    [ep |-> rq.ep, arg |-> rq.arg, rel |-> rq.rel, page |-> rq.page,
     limit |-> rq.limit, key |-> rq.key, sc |-> r.sc, shape |-> r.shape,
     id |-> IF rq.ep \in RegEps THEN HeadId(r) ELSE None,
     regs |-> IF rq.ep \in ListEps /\ r.shape = "list" THEN r.body ELSE <<>>]

ReqOf(e) == A2A(Req(e.ep, e.arg, e.rel, e.page, e.limit), e.key)

IsRA(e) == e.ep = "RetrievableAccounts"

\* An element of pages: the response to one request of the enumeration.
PageE(rid, pg, r) == [rid |-> rid, page |-> pg, sc |-> r.sc, shape |-> r.shape, body |-> r.body]

-----------------------------------------------------------------------------
\* Output records.

Ev(via, msg) ==
    [via |-> via, msg |-> msg, found |-> None, api_key |-> None, asset |-> None,
     account |-> None, reg_id |-> None, source |-> None]

\* status(stage, **kv): a progress event.
Status(stage) == Ev("status", stage)

\* jerr(msg, extra) / err(msg, extra) with an extra dict built by the program:
\* none of its keys is "error" or "found".
Jerr(msg) == [Ev("jerr", msg) EXCEPT !.found = "False"]

\* jerr(msg, extra) with a server-supplied JSON object as extra: dict.update
\* overwrites "error" and "found" when the object carries them.
JerrMerged(msg, o) ==
    [Ev("jerr", IF o.error # None THEN o.error ELSE msg)
        EXCEPT !.found = IF o.found # None THEN o.found ELSE "False"]

\* jout(obj) / out(obj): the success record.
Jout(k, rid, an, cn, src) ==
    [via |-> "jout", msg |-> None, found |-> "True", api_key |-> k, asset |-> an,
     account |-> cn, reg_id |-> rid, source |-> src]

IsFinal(e) == e.via # "status"

-----------------------------------------------------------------------------
\* What the appliance may answer.  The stage named by focus is answered from
\* its full alphabet, the stages before it succeed at once, the stages after
\* it are answered from a short alphabet.

TokenResps(objs, good) ==
    IF focus = "front"
    THEN {Exc, Http(500), NonJson, List(<<>>)} \cup {Obj(o) : o \in objs}
    ELSE {Obj(good)}

IdentityResps ==
    CASE focus = "front" ->
            {Exc, Http(404), Http(401), Http(403), Http(500), NonJson, List(<<>>),
             Obj(IdentRegOnly), Obj(IdentEmpty)}
      [] focus = "resolve" -> {Obj(i) : i \in Idents}
      [] OTHER -> {Obj(IdentRegOnly)}

RegByIdResps ==
    CASE focus = "resolve" ->
            {Exc, Http(404), Http(500), NonJson, List(<<>>),
             Obj(Reg7), Obj(Reg8), Obj(RegNoId), Obj(RegEmpty)}
      [] focus = "front" -> {Http(404), Obj(Reg7)}
      [] OTHER -> {Obj(Reg7)}

RegFilterResps ==
    CASE focus = "resolve" ->
            {Exc, Http(403), Http(500), NonJson, List(<<>>), List(<<Reg7>>),
             List(<<RegNoId, Reg7>>), List(<<RegEmpty>>), List(<<NotObjReg>>)}
      [] focus = "front" -> {List(<<>>), List(<<Reg7>>)}
      [] OTHER -> {List(<<Reg7>>)}

KeyEntries == {EMatch1, EMatch2, ENoKey, EEmptyKey, EOther, ENotObj}
NameEntries == {EMatch1, ECase, EBlank}

\* Responses to RetrievableAccounts?page=pg: a non-empty page is served only
\* below MaxPages.
RAResps(pg) ==
    LET E == CASE focus = "keys" -> KeyEntries
               [] focus = "names" -> NameEntries
               [] OTHER -> {}
    IN  IF E = {}
        THEN {Http(401), List(<<>>), List(<<EMatch1>>)}
        ELSE {Exc, Http(401), Http(403), Http(500), NonJson, Scalar, List(<<>>)}
             \cup {List(l) : l \in IF pg < MaxPages THEN SeqsOf(E, 1, MaxPageLen) ELSE {}}

-----------------------------------------------------------------------------
\* Helpers shared by the two command-line programs.

\* get_json_or_die(r, where) / j(resp, where): "http" when raise_for_status
\* raises (4xx, 5xx), "nonjson" when the body does not decode, else "ok".
GetJson(r) ==
    IF r.sc >= 400 THEN "http" ELSE IF r.shape = "nonjson" THEN "nonjson" ELSE "ok"

\* Fault: only 401 is skipped, 403 is handled as any other HTTP error.
IsDenied_401Only(sc) == sc = 401

\* `if r.status_code in (401, 403)`
IsDenied(sc) == sc \in {401, 403}

\* `if not isinstance(ras, list) or not ras: break`
EndOfPages(r) == r.shape # "list" \/ Len(r.body) = 0

\* Fault: only an absent ApiKey is refused, an empty one is returned.
KeyOk_NotNone(k) == k # None

\* `if not api_key` on the matched entry, negated.
KeyOk(k) == Truthy(k)

\* Fault: the page index is not advanced.
NextPage_Same(p) == p

\* `r_page += 1`
NextPage(p) == p + 1

\* name_from(obj, flat, nested, key): the flat field unless it is None.
name_from(flat, nested) == IF flat # None THEN flat ELSE nested

\* Fault: the scan does not stop at the first match, the last one wins.
CliScan_LastMatch(ras, i) ==
    LET hit == {j \in i..Len(ras) :
                   \/ ~ras[j].obj
                   \/ /\ name_from(ras[j].AssetName, ras[j].Asset_Name) = SysName
                      /\ name_from(ras[j].AccountName, ras[j].Account_Name) = AcctName}
    IN  IF hit = {} THEN 0 ELSE CHOOSE j \in hit : \A h \in hit : h <= j

\* The scan of one page by the command-line programs: the index of the first
\* entry that ends the scan (a match, or a non-object on which .get raises),
\* 0 when the scan runs through.
RECURSIVE CliScan(_, _)
CliScan(ras, i) ==
    IF i > Len(ras) THEN 0
    ELSE IF ~ras[i].obj THEN i
    ELSE IF /\ name_from(ras[i].AssetName, ras[i].Asset_Name) = SysName
            /\ name_from(ras[i].AccountName, ras[i].Account_Name) = AcctName
         THEN i
         ELSE CliScan(ras, i + 1)

-----------------------------------------------------------------------------
\* Control: the program's locals, and one step of it.

NoIdent == [IdentEmpty EXCEPT !.obj = FALSE]
NoReg == NotObjReg

Cur == [pc |-> pc, idx |-> idx, ident |-> ident, reg |-> reg, reg_id |-> reg_id,
        source |-> source, page |-> page, regs_ids |-> regs_ids, bootKey |-> bootKey,
        final_api_key |-> final_api_key]

\* The program has ended (sys.exit, return or raise).
Done == [Cur EXCEPT !.pc = "done"]

\* An outcome: the locals after the step and what the step emitted.
To(L, ev) == [L |-> L, ev |-> ev]

Goto(o, before) ==
    /\ pc' = o.L.pc /\ idx' = o.L.idx /\ ident' = o.L.ident /\ reg' = o.L.reg
    /\ reg_id' = o.L.reg_id /\ source' = o.L.source /\ page' = o.L.page
    /\ regs_ids' = o.L.regs_ids /\ bootKey' = o.L.bootKey
    /\ final_api_key' = o.L.final_api_key
    /\ out' = out \o before \o o.ev
    /\ UNCHANGED inputs

Send(rq, r) == log' = Append(log, LogE(rq, r))

NoPage == -1
NoLimit == 0

Init ==
    /\ prog \in Progs
    /\ focus \in Foci
    /\ argsOk \in (IF focus = "front" THEN BOOLEAN ELSE {TRUE})
    /\ override \in (IF focus = "resolve" /\ prog = "scruf" THEN {None, "", "7", "9"}
                     ELSE IF focus = "resolve" /\ prog = "plugin2" THEN {None, "9"}
                     ELSE {None})
    /\ regIndex \in (IF focus = "resolve" /\ prog \in {"plugin", "p1", "plugin2"}
                     THEN -3 .. 2 ELSE {0})
    /\ retfmt \in (IF prog \in {"plugin", "p1"} /\ focus \in {"keys", "front"}
                   THEN {"api_key", "dict"} ELSE {"api_key"})
    /\ terms \in (IF prog = "plugin2" /\ focus = "front"
                  THEN {<<>>, <<"PrivateKey">>} ELSE {<<>>})
    /\ secretKw \in (IF prog = "plugin2" /\ focus = "front"
                     THEN {None, "", "ApiKey"} ELSE {None})
    /\ pc = "main" /\ idx = 0 /\ ident = NoIdent /\ reg = NoReg /\ reg_id = None
    /\ source = None /\ page = 0 /\ regs_ids = <<>> /\ bootKey = None
    /\ final_api_key = None
    /\ log = <<>> /\ pages = <<>> /\ out = <<>>

-----------------------------------------------------------------------------
\* certkey_to_bearer_get_apikey_print_stdout.py
\* Every exception other than SystemExit reaches the handler of __main__,
\* which prints the record "unhandled".

CkUnhandled == To(Done, <<Jerr("unhandled")>>)

\* __main__: argument check, then run_flow up to the first request.
CkMain ==
    /\ prog = "certkey" /\ pc = "main"
    /\ Goto(IF ~argsOk
            THEN To(Done, <<Jerr("Invalid arguments")>>)
            ELSE To([Cur EXCEPT !.pc = "rsts"], <<Status("parsed"), Status("start")>>),
            <<>>)
    /\ UNCHANGED <<log, pages>>

CkRstsOn(r) ==
    CASE r.sc = 0 -> CkUnhandled
      [] r.sc # 0 /\ GetJson(r) = "http" -> To(Done, <<Jerr("RSTS token: HTTP")>>)
      [] r.sc # 0 /\ GetJson(r) = "nonjson" -> To(Done, <<Jerr("RSTS token: non-JSON")>>)
      [] r.sc # 0 /\ GetJson(r) = "ok" /\ r.shape # "obj" -> CkUnhandled
      [] OTHER ->
            IF ~Truthy(r.body[1].access_token)
            THEN To(Done, <<JerrMerged("RSTS token missing access_token", r.body[1])>>)
            ELSE To([Cur EXCEPT !.pc = "exchange"], <<Status("rsts_ok")>>)

CkExchangeOn(r) ==
    CASE r.sc = 0 -> CkUnhandled
      [] r.sc # 0 /\ GetJson(r) = "http" -> To(Done, <<Jerr("Core token exchange: HTTP")>>)
      [] r.sc # 0 /\ GetJson(r) = "nonjson" -> To(Done, <<Jerr("Core token exchange: non-JSON")>>)
      [] r.sc # 0 /\ GetJson(r) = "ok" /\ r.shape # "obj" -> CkUnhandled
      [] OTHER ->
            IF ~Truthy(Or(r.body[1].UserToken, r.body[1].user_token))
            THEN To(Done, <<JerrMerged("Token exchange response missing UserToken", r.body[1])>>)
            ELSE To([Cur EXCEPT !.pc = "whoami", !.idx = 1], <<Status("exchange_ok")>>)

\* get_bearer_from_cert: POST RSTS/oauth2/token.
CkRsts ==
    /\ prog = "certkey" /\ pc = "rsts"
    /\ \E r \in TokenResps(StsObjs, TokObj("sts", None, None, None, None)) :
          /\ Send(Req("RSTS/oauth2/token", "", "", NoPage, NoLimit), r)
          /\ Goto(CkRstsOn(r), <<Status("rsts_request")>>)
    /\ UNCHANGED pages

\* get_bearer_from_cert: POST Token/LoginResponse.
CkExchange ==
    /\ prog = "certkey" /\ pc = "exchange"
    /\ \E r \in TokenResps(LoginObjs, TokObj(None, "bearer", None, None, None)) :
          /\ Send(Req("Token/LoginResponse", "", "", NoPage, NoLimit), r)
          /\ Goto(CkExchangeOn(r), <<Status("exchange_request")>>)
    /\ UNCHANGED pages

\* get_auth_identity: candidates, in order.
candidates == <<"Me", "WhoAmI", "Token/WhoAmI">>

\* resolve_registration_id: ids = [ident.get(k) for k in id_fields if ... is not None].
CkIds(id) ==
    SelectSeq(<<id.Id, id.ID, id.UserId, id.AppId, id.ApplicationId, id.RegistrationId>>,
              LAMBDA v : v # None)

Flt(rel, v) == [rel |-> rel, arg |-> v]

\* resolve_registration_id: the filters list.
CkFilters(id) ==
       (IF Truthy(id.Id) THEN <<Flt("Owner", id.Id), Flt("RegisteredBy", id.Id)>> ELSE <<>>)
    \o (IF Truthy(id.UserId)
        THEN <<Flt("Owner", id.UserId), Flt("RegisteredBy", id.UserId)>> ELSE <<>>)
    \o (IF Truthy(id.AppId) THEN <<Flt("Application", id.AppId)>> ELSE <<>>)
    \o (IF Truthy(id.ApplicationId) THEN <<Flt("Application", id.ApplicationId)>> ELSE <<>>)

\* resolve_registration_id returns rid; run_flow enters find_api_key_for_registration.
CkResolved(L, rid) == To([L EXCEPT !.pc = "ra", !.page = 0, !.reg_id = rid], <<>>)

CkUnresolved ==
    To(Done, <<Jerr("Could not resolve A2A registration id from authenticated identity")>>)

\* Fault: the search gives up after the first filter without a result.
CkNextFilter_GivesUp(L, k) ==
    IF k = 0 /\ Len(CkFilters(L.ident)) > 0
    THEN To([L EXCEPT !.pc = "filter", !.idx = 1], <<>>)
    ELSE CkUnresolved

\* resolve_registration_id after filter k of identity id is through without a result.
CkNextFilter(L, k) ==
    IF k < Len(CkFilters(L.ident))
    THEN To([L EXCEPT !.pc = "filter", !.idx = k + 1], <<>>)
    ELSE CkUnresolved

\* resolve_registration_id after direct fetch k is through without a result.
CkNextId(L, k) ==
    IF k < Len(CkIds(L.ident))
    THEN To([L EXCEPT !.pc = "regbyid", !.idx = k + 1], <<>>)
    ELSE CkNextFilter(L, 0)

\* get_auth_identity after candidate k is through without a JSON object.
CkNextCandidate(k) ==
    IF k < Len(candidates)
    THEN To([Cur EXCEPT !.idx = k + 1], <<>>)
    ELSE To(Done, <<Jerr("Unable to determine authenticated identity via self endpoints")>>)

\* Prepend events to an outcome.
After(ev, o) == To(o.L, ev \o o.ev)

CkWhoamiOn(r) ==
    CASE r.sc = 0 -> CkUnhandled
      [] r.sc = 404 -> After(<<Status("whoami_404")>>, CkNextCandidate(idx))
      [] IsDenied(r.sc) -> After(<<Status("whoami_forbidden")>>, CkNextCandidate(idx))
      [] r.sc \notin {0, 404} /\ ~IsDenied(r.sc) /\ GetJson(r) = "http" ->
            To(Done, <<Jerr("whoami: HTTP")>>)
      [] r.sc \notin {0, 404} /\ ~IsDenied(r.sc) /\ GetJson(r) = "nonjson" ->
            To(Done, <<Jerr("whoami: non-JSON")>>)
      [] OTHER ->
            IF r.shape = "obj"
            THEN After(<<Status("whoami_ok")>>, CkNextId([Cur EXCEPT !.ident = r.body[1]], 0))
            ELSE CkNextCandidate(idx)

\* get_auth_identity: one GET of the loop; on a JSON object, run_flow goes on
\* into resolve_registration_id up to its first request.
CkWhoami ==
    /\ prog = "certkey" /\ pc = "whoami"
    /\ \E r \in IdentityResps :
          /\ Send(Req(candidates[idx], "", "", NoPage, NoLimit), r)
          /\ Goto(CkWhoamiOn(r), <<Status("whoami_request")>>)
    /\ UNCHANGED pages

CkRegByIdOn(r) ==
    CASE r.sc = 0 -> CkUnhandled
      [] r.sc = 200 /\ r.shape = "nonjson" -> To(Done, <<Jerr("A2ARegistrations/{id}: non-JSON")>>)
      [] r.sc = 200 /\ r.shape = "obj" /\ Truthy(Or(r.body[1].Id, r.body[1].ID)) ->
            After(<<Status("reg_by_id_ok")>>, CkResolved(Cur, Or(r.body[1].Id, r.body[1].ID)))
      [] r.sc = 200 /\ r.shape # "nonjson"
                    /\ ~(r.shape = "obj" /\ Truthy(Or(r.body[1].Id, r.body[1].ID))) ->
            CkNextId(Cur, idx)
      [] OTHER -> After(<<Status("reg_by_id_fail")>>, CkNextId(Cur, idx))

\* resolve_registration_id, 1): GET A2ARegistrations/{rid}.
CkRegById ==
    /\ prog = "certkey" /\ pc = "regbyid"
    /\ \E r \in RegByIdResps :
          /\ Send(Req("A2ARegistrations/{id}", CkIds(ident)[idx], "", NoPage, NoLimit), r)
          /\ Goto(CkRegByIdOn(r), <<Status("try_reg_by_id")>>)
    /\ UNCHANGED pages

CkFilterOn(r) ==
    CASE r.sc = 0 -> CkUnhandled
      [] IsDenied(r.sc) -> After(<<Status("regs_filter_forbidden")>>, CkNextFilter(Cur, idx))
      [] r.sc # 0 /\ ~IsDenied(r.sc) /\ GetJson(r) = "http" ->
            To(Done, <<Jerr("A2ARegistrations filtered: HTTP")>>)
      [] r.sc # 0 /\ ~IsDenied(r.sc) /\ GetJson(r) = "nonjson" ->
            To(Done, <<Jerr("A2ARegistrations filtered: non-JSON")>>)
      [] OTHER ->
            IF r.shape = "list" /\ Len(r.body) > 0
            THEN IF ~r.body[1].obj
                 THEN After(<<Status("regs_filter_ok")>>, CkUnhandled)
                 ELSE IF Truthy(Or(r.body[1].Id, r.body[1].ID))
                      THEN After(<<Status("regs_filter_ok")>>,
                                 CkResolved(Cur, Or(r.body[1].Id, r.body[1].ID)))
                      ELSE After(<<Status("regs_filter_ok")>>, CkNextFilter(Cur, idx))
            ELSE CkNextFilter(Cur, idx)

\* resolve_registration_id, 2): GET A2ARegistrations?filter=...&limit=1.
CkFilter ==
    /\ prog = "certkey" /\ pc = "filter"
    /\ \E r \in RegFilterResps :
          /\ Send(Req("A2ARegistrations?filter", CkFilters(ident)[idx].arg,
                      CkFilters(ident)[idx].rel, NoPage, 1), r)
          /\ Goto(CkFilterOn(r), <<Status("regs_filter_try")>>)
    /\ UNCHANGED pages

\* The failure record naming the requested pair.
NotFound(via, msg, rid, src) ==
    [Ev(via, msg) EXCEPT !.found = "False", !.asset = SysName, !.account = AcctName,
                         !.reg_id = rid, !.source = src]

Forbidden(rid) == [Jerr("RetrievableAccounts forbidden") EXCEPT !.reg_id = rid]
KeyMissing(via, rid) == [Ev(via, "match found but ApiKey missing") EXCEPT !.found = "False", !.reg_id = rid]

CkPageOn(r) ==
    CASE r.sc = 0 -> CkUnhandled
      [] IsDenied(r.sc) -> To(Done, <<Forbidden(reg_id)>>)
      [] r.sc # 0 /\ ~IsDenied(r.sc) /\ GetJson(r) = "http" ->
            To(Done, <<Jerr("RetrievableAccounts: HTTP")>>)
      [] r.sc # 0 /\ ~IsDenied(r.sc) /\ GetJson(r) = "nonjson" ->
            To(Done, <<Jerr("RetrievableAccounts: non-JSON")>>)
      [] OTHER ->
            IF EndOfPages(r)
            THEN To(Done, <<NotFound("jerr", "No API key found", reg_id, None)>>)
            ELSE LET i == CliScan(r.body, 1) IN
                 IF i = 0 THEN To([Cur EXCEPT !.page = NextPage(page)], <<>>)
                 ELSE IF ~r.body[i].obj THEN CkUnhandled
                 ELSE IF ~KeyOk(r.body[i].ApiKey) THEN To(Done, <<KeyMissing("jerr", reg_id)>>)
                 ELSE To(Done, <<Jout(r.body[i].ApiKey, reg_id,
                                      name_from(r.body[i].AssetName, r.body[i].Asset_Name),
                                      name_from(r.body[i].AccountName, r.body[i].Account_Name),
                                      None)>>)

\* find_api_key_for_registration: one iteration of the while loop.
CkPage ==
    /\ prog = "certkey" /\ pc = "ra"
    /\ \E r \in RAResps(page) :
          /\ Send(Req("RetrievableAccounts", reg_id, "", page, CkLimit), r)
          /\ pages' = Append(pages, PageE(reg_id, page, r))
          /\ Goto(CkPageOn(r), <<Status("list_ra")>>)

-----------------------------------------------------------------------------
\* scruf.py
\* Nothing catches an exception that is not raised inside one of the try
\* blocks: the interpreter prints a traceback and no record is emitted.

Crash == To([Cur EXCEPT !.pc = "crash"], <<>>)

\* err(msg, extra) with an extra dict built by the program.
Err(msg) == [Ev("err", msg) EXCEPT !.found = "False"]

\* PySafeguardConnection.connect_certificate either returns or raises.
Connected == Resp(200, "none", <<>>)

ConnectResps == IF focus = "front" THEN {Exc, Connected} ELSE {Connected}

\* __main__ and main up to connect_certificate.
ScMain ==
    /\ prog = "scruf" /\ pc = "main"
    /\ IF ~argsOk
       THEN /\ Goto(To(Done, <<Err("Invalid arguments")>>), <<>>)
            /\ UNCHANGED log
       ELSE \E r \in ConnectResps :
              /\ Send(Req("connect_certificate", "", "", NoPage, NoLimit), r)
              /\ Goto(IF r.sc = 0 THEN To(Done, <<Err("certificate connect failed")>>)
                      ELSE To([Cur EXCEPT !.pc = "whoami"], <<>>), <<>>)
    /\ UNCHANGED pages

\* main, after determine_registration returned (reg, source).
ScResolved(L, r, src) ==
    IF ~r.obj THEN Crash
    ELSE To([L EXCEPT !.pc = "ra", !.page = 0, !.reg = r, !.source = src,
                      !.reg_id = Or(r.Id, r.ID)], <<>>)

\* determine_registration returned (None, None).
ScUnresolved == To(Done, <<Err("unable to resolve A2A registration")>>)

\* determine_registration from "# 3) Owner Id" on.
ScFromOwner(L) ==
    IF Truthy(Or(Or(L.ident.Id, L.ident.UserId), L.ident.ID))
    THEN To([L EXCEPT !.pc = "owner"], <<>>)
    ELSE ScUnresolved

\* determine_registration from "# 2) Application.Id" on.
ScFromApp(L) ==
    IF Truthy(Or(Or(L.ident.Application_Id, L.ident.ApplicationId), L.ident.AppId))
    THEN To([L EXCEPT !.pc = "app"], <<>>)
    ELSE ScFromOwner(L)

\* determine_registration from "# 1) direct RegistrationId" on; whoami.get
\* raises when the payload is not a JSON object.
ScFromRegId(L) ==
    IF ~L.ident.obj THEN Crash
    ELSE IF Truthy(L.ident.RegistrationId) THEN To([L EXCEPT !.pc = "regid"], <<>>)
    ELSE ScFromApp(L)

\* Fault: REG_ID is not consulted.
determine_registration_NoEnv(L) == ScFromRegId(L)

\* determine_registration from "# 0) env override" on.
determine_registration(L) ==
    IF Truthy(override) THEN To([L EXCEPT !.pc = "env"], <<>>) ELSE ScFromRegId(L)

\* The decoded whoami payload: the object, or a value that is not one.
Payload(r) == IF r.shape = "obj" THEN r.body[1] ELSE NoIdent

ScWhoamiOn(r) ==
    CASE r.sc = 0 -> To(Done, <<Err("Token/WhoAmI request_error")>>)
      [] r.sc # 0 /\ GetJson(r) = "http" -> To(Done, <<Err("Token/WhoAmI: HTTP")>>)
      [] r.sc # 0 /\ GetJson(r) = "nonjson" -> To(Done, <<Err("Token/WhoAmI: non-JSON")>>)
      [] OTHER -> determine_registration([Cur EXCEPT !.ident = Payload(r)])

\* main: GET Token/WhoAmI, then determine_registration up to its first request.
ScWhoami ==
    /\ prog = "scruf" /\ pc = "whoami"
    /\ \E r \in IdentityResps :
          /\ Send(Req("Token/WhoAmI", "", "", NoPage, NoLimit), r)
          /\ Goto(ScWhoamiOn(r), <<>>)
    /\ UNCHANGED pages

\* try_get_registration_by_id: <<reg>>, or <<>> for None (a 200 body that does
\* not decode ends the run inside j(); the caller handles that first).
try_get_registration_by_id(r) ==
    IF r.sc # 200 THEN <<>>
    ELSE IF r.shape = "obj" /\ Truthy(Or(r.body[1].Id, r.body[1].ID)) THEN <<r.body[1]>>
    ELSE <<>>

\* try_get_registration_by_filter: regs[0] of a non-empty list, else None.
try_get_registration_by_filter(r) ==
    IF r.sc = 0 \/ IsDenied(r.sc) THEN <<>>
    ELSE IF r.shape = "list" /\ Len(r.body) > 0 THEN <<r.body[1]>>
    ELSE <<>>

\* Fault: the registration a helper returned is dropped, the next strategy follows.
Got_Never(g) == FALSE

\* `if reg:` on the value a try_get_* helper returned.
Got(g) == g # <<>> /\ RegTruthy(g[1])

\* determine_registration, 0): direct fetch of env REG_ID.
ScEnv ==
    /\ prog = "scruf" /\ pc = "env"
    /\ \E r \in RegByIdResps :
          /\ Send(Req("A2ARegistrations/{id}", override, "", NoPage, NoLimit), r)
          /\ LET g == try_get_registration_by_id(r) IN
             Goto(IF r.sc = 200 /\ r.shape = "nonjson"
                  THEN To(Done, <<Err("A2ARegistrations/{rid}: non-JSON")>>)
                  ELSE IF Got(g) THEN ScResolved(Cur, g[1], "env(REG_ID)")
                  ELSE ScFromRegId(Cur), <<>>)
    /\ UNCHANGED pages

\* determine_registration, 1): direct fetch of whoami RegistrationId.
ScRegId ==
    /\ prog = "scruf" /\ pc = "regid"
    /\ \E r \in RegByIdResps :
          /\ Send(Req("A2ARegistrations/{id}", ident.RegistrationId, "", NoPage, NoLimit), r)
          /\ LET g == try_get_registration_by_id(r) IN
             Goto(IF r.sc = 200 /\ r.shape = "nonjson"
                  THEN To(Done, <<Err("A2ARegistrations/{rid}: non-JSON")>>)
                  ELSE IF Got(g) THEN ScResolved(Cur, g[1], "Token/WhoAmI.RegistrationId")
                  ELSE ScFromApp(Cur), <<>>)
    /\ UNCHANGED pages

\* What j() does inside try_get_registration_by_filter.
ScFilterFatal(r) ==
    IF r.sc = 0 \/ IsDenied(r.sc) THEN "ok" ELSE GetJson(r)

\* determine_registration, 2): filter Application/Id.
ScApp ==
    /\ prog = "scruf" /\ pc = "app"
    /\ \E r \in RegFilterResps :
          /\ Send(Req("A2ARegistrations?filter",
                      Or(Or(ident.Application_Id, ident.ApplicationId), ident.AppId),
                      "Application", NoPage, 5), r)
          /\ LET g == try_get_registration_by_filter(r) IN
             Goto(IF ScFilterFatal(r) = "http"
                  THEN To(Done, <<Err("A2ARegistrations(filter): HTTP")>>)
                  ELSE IF ScFilterFatal(r) = "nonjson"
                  THEN To(Done, <<Err("A2ARegistrations(filter): non-JSON")>>)
                  ELSE IF Got(g) THEN ScResolved(Cur, g[1], "Application/Id")
                  ELSE ScFromOwner(Cur), <<>>)
    /\ UNCHANGED pages

\* determine_registration, 3): filter Owner/Id.
ScOwner ==
    /\ prog = "scruf" /\ pc = "owner"
    /\ \E r \in RegFilterResps :
          /\ Send(Req("A2ARegistrations?filter", Or(Or(ident.Id, ident.UserId), ident.ID),
                      "Owner", NoPage, 5), r)
          /\ LET g == try_get_registration_by_filter(r) IN
             Goto(IF ScFilterFatal(r) = "http"
                  THEN To(Done, <<Err("A2ARegistrations(filter): HTTP")>>)
                  ELSE IF ScFilterFatal(r) = "nonjson"
                  THEN To(Done, <<Err("A2ARegistrations(filter): non-JSON")>>)
                  ELSE IF Got(g) THEN ScResolved(Cur, g[1], "Owner/Id")
                  ELSE ScUnresolved, <<>>)
    /\ UNCHANGED pages

ScPageOn(r) ==
    CASE r.sc = 0 -> To(Done, <<[Err("RetrievableAccounts request_error") EXCEPT !.reg_id = reg_id]>>)
      [] IsDenied(r.sc) ->
            To(Done, <<[Err("RetrievableAccounts forbidden") EXCEPT !.reg_id = reg_id]>>)
      [] r.sc # 0 /\ ~IsDenied(r.sc) /\ GetJson(r) = "http" ->
            To(Done, <<Err("RetrievableAccounts: HTTP")>>)
      [] r.sc # 0 /\ ~IsDenied(r.sc) /\ GetJson(r) = "nonjson" ->
            To(Done, <<Err("RetrievableAccounts: non-JSON")>>)
      [] OTHER ->
            IF EndOfPages(r)
            THEN To(Done, <<NotFound("err", "no match for provided system/account",
                                     reg_id, source)>>)
            ELSE LET i == CliScan(r.body, 1) IN
                 IF i = 0 THEN To([Cur EXCEPT !.page = NextPage(page)], <<>>)
                 ELSE IF ~r.body[i].obj THEN Crash
                 ELSE IF ~KeyOk(r.body[i].ApiKey) THEN To(Done, <<KeyMissing("err", reg_id)>>)
                 ELSE To(Done, <<[Jout(r.body[i].ApiKey, reg_id,
                                       name_from(r.body[i].AssetName, r.body[i].Asset_Name),
                                       name_from(r.body[i].AccountName, r.body[i].Account_Name),
                                       source) EXCEPT !.via = "out"]>>)

\* main: one iteration of the while loop.
ScPage ==
    /\ prog = "scruf" /\ pc = "ra"
    /\ \E r \in RAResps(page) :
          /\ Send(Req("RetrievableAccounts", reg_id, "", page, ScLimit), r)
          /\ pages' = Append(pages, PageE(reg_id, page, r))
          /\ Goto(ScPageOn(r), <<>>)

-----------------------------------------------------------------------------
\* plugin.py and p1.py: the same run(), apart from the argument checks and the
\* name of the return-format keyword.

Lookups == {"plugin", "p1"}

\* raise AnsibleError(msg)
Raise(msg) == Ev("raise", msg)

\* A non-Ansible exception leaves run(): no record of the plugin's own.
PlCrash == To([Cur EXCEPT !.pc = "crash"], <<>>)

\* Fault: a 401 or 403 is swallowed and read as a page without entries.
get_json_SkipsDenied(r) ==
    IF IsDenied(r.sc) THEN "ok"
    ELSE IF r.sc = 0 \/ r.sc >= 400 THEN "get"
    ELSE IF r.shape = "nonjson" THEN "nonjson" ELSE "ok"

\* _get_json(url): "get" when open_url raises (transport failure, or an HTTP
\* error status, which open_url turns into an exception), "nonjson" when
\* json.loads raises, else "ok".
get_json(r) ==
    IF r.sc = 0 \/ r.sc >= 400 THEN "get" ELSE IF r.shape = "nonjson" THEN "nonjson" ELSE "ok"

RegListResps ==
    CASE focus = "resolve" ->
            {Exc, Http(403), NonJson, Scalar, List(<<>>), List(<<Reg7>>), List(<<Reg8, Reg7>>),
             List(<<RegNoId, Reg7>>), List(<<Reg7, NotObjReg>>)}
      [] focus = "front" -> {Exc, List(<<>>), List(<<Reg7>>)}
      [] OTHER -> {List(<<Reg7>>)}

\* regs[i] in Python: <<element>>, or <<>> for IndexError.
PyIndex(l, i) ==
    IF i >= 0 THEN (IF i < Len(l) THEN <<l[i + 1]>> ELSE <<>>)
    ELSE (IF -i <= Len(l) THEN <<l[Len(l) + i + 1]>> ELSE <<>>)

\* The scan of one page: ra.get(flat) or (ra.get(nested) or {}).get("Name").
RECURSIVE PlScan(_, _)
PlScan(ras, i) ==
    IF i > Len(ras) THEN 0
    ELSE IF ~ras[i].obj THEN i
    ELSE IF /\ Or(ras[i].AssetName, ras[i].Asset_Name) = SysName
            /\ Or(ras[i].AccountName, ras[i].Account_Name) = AcctName
         THEN i
         ELSE PlScan(ras, i + 1)

\* run: argument checks.
PlMain ==
    /\ prog \in Lookups /\ pc = "main"
    /\ Goto(IF ~argsOk THEN To(Done, <<Raise("required: host, cacert, system, account")>>)
            ELSE To([Cur EXCEPT !.pc = "regs"], <<>>), <<>>)
    /\ UNCHANGED <<log, pages>>

PlListOn(r) ==
    CASE get_json(r) = "get" -> To(Done, <<Raise("GET failed")>>)
      [] get_json(r) = "nonjson" -> To(Done, <<Raise("Non-JSON")>>)
      [] OTHER ->
            IF r.shape # "list" \/ Len(r.body) = 0
            THEN To(Done, <<Raise("A2ARegistrations returned empty list")>>)
            ELSE LET g == PyIndex(r.body, regIndex) IN
                 IF g = <<>> THEN To(Done, <<Raise("registration_index out of range")>>)
                 ELSE IF ~g[1].obj THEN PlCrash
                 ELSE IF Or(g[1].Id, g[1].ID) = None
                 THEN To(Done, <<Raise("registration missing Id")>>)
                 ELSE To([Cur EXCEPT !.pc = "ra", !.page = 0, !.reg = g[1],
                                     !.reg_id = Or(g[1].Id, g[1].ID)], <<>>)

\* run, 1): GET A2ARegistrations and the choice of the registration.
PlList ==
    /\ prog \in Lookups /\ pc = "regs"
    /\ \E r \in RegListResps :
          /\ Send(Req("A2ARegistrations", "", "", NoPage, NoLimit), r)
          /\ Goto(PlListOn(r), <<>>)
    /\ UNCHANGED pages

\* return [api_key] or [{...}].
Return(k, rid, an, cn) ==
    IF retfmt = "dict"
    THEN [Jout(k, rid, an, cn, None) EXCEPT !.via = "return", !.found = None]
    ELSE [Jout(k, None, None, None, None) EXCEPT !.via = "return", !.found = None]

PlPageOn(r) ==
    CASE get_json(r) = "get" -> To(Done, <<Raise("GET failed")>>)
      [] get_json(r) = "nonjson" -> To(Done, <<Raise("Non-JSON")>>)
      [] OTHER ->
            IF EndOfPages(r)
            THEN To(Done, <<NotFound("raise", "No ApiKey match", reg_id, None)>>)
            ELSE LET i == PlScan(r.body, 1) IN
                 IF i = 0 THEN To([Cur EXCEPT !.page = NextPage(page)], <<>>)
                 ELSE IF ~r.body[i].obj THEN PlCrash
                 ELSE IF ~KeyOk(r.body[i].ApiKey) THEN To(Done, <<KeyMissing("raise", reg_id)>>)
                 ELSE To(Done, <<Return(r.body[i].ApiKey, reg_id,
                                        Or(r.body[i].AssetName, r.body[i].Asset_Name),
                                        Or(r.body[i].AccountName, r.body[i].Account_Name))>>)

\* run, 2): one iteration of the while loop.
PlPage ==
    /\ prog \in Lookups /\ pc = "ra"
    /\ \E r \in RAResps(page) :
          /\ Send(Req("RetrievableAccounts", reg_id, "", page, PlLimit), r)
          /\ pages' = Append(pages, PageE(reg_id, page, r))
          /\ Goto(PlPageOn(r), <<>>)

-----------------------------------------------------------------------------
\* plugin2.py

\* secret_type = (terms[0] if terms else kwargs.get("secret_type") or "Password")
secret_type == IF Len(terms) > 0 THEN terms[1] ELSE Or(secretKw, "Password")

BootResps ==
    CASE focus = "resolve" ->
            {Exc, NonJson, Scalar, List(<<>>), List(<<EOther>>), List(<<ENoKey>>),
             List(<<ENotObj>>)}
      [] focus = "front" -> {List(<<>>), List(<<EOther>>)}
      [] OTHER -> {List(<<EOther>>)}

A2AResps ==
    CASE focus = "resolve" ->
            {Exc, NonJson, Scalar, List(<<>>), List(<<Reg7>>), List(<<Reg8, Reg7>>),
             List(<<RegNoId>>), List(<<Reg7, NotObjReg>>)}
      [] focus = "front" -> {Exc, List(<<Reg7>>)}
      [] OTHER -> {List(<<Reg7, Reg8>>)}

Secret == Resp(200, "text", <<>>)

CredResps == IF focus = "front" THEN {Exc, Http(403), Secret} ELSE {Secret}

\* _list_regs_via_a2a: the ids r.get("Id") or r.get("ID") that are not None.
RECURSIVE IdsNotNone(_, _)
IdsNotNone(l, i) ==
    IF i > Len(l) THEN <<>>
    ELSE (IF Or(l[i].Id, l[i].ID) # None THEN <<Or(l[i].Id, l[i].ID)>> ELSE <<>>)
         \o IdsNotNone(l, i + 1)

\* run, STEP 2 fallback: the ids r.get("Id") or r.get("ID") that are truthy.
RECURSIVE IdsTruthy(_, _)
IdsTruthy(l, i) ==
    IF i > Len(l) THEN <<>>
    ELSE (IF Truthy(Or(l[i].Id, l[i].ID)) THEN <<Or(l[i].Id, l[i].ID)>> ELSE <<>>)
         \o IdsTruthy(l, i + 1)

AllObj(l) == \A i \in 1..Len(l) : l[i].obj

\* Fault: the ids of the A2A listing are thrown away.
A2AIds_Never(r) == <<>>

\* _list_regs_via_a2a, one path: the ids it returns from this response, <<>>
\* when it passes on to the next path (every exception is swallowed).
A2AIds(r) ==
    IF get_json(r) = "ok" /\ r.shape = "list" /\ Len(r.body) > 0 /\ AllObj(r.body)
    THEN IdsNotNone(r.body, 1)
    ELSE <<>>

a2a_paths == <<"a2a/v4/Registrations", "a2a/v4/registrations">>

\* The scan of one page: names lower-cased, compared with the lower-cased request.
RECURSIVE P2Scan(_, _)
P2Scan(ras, i) ==
    IF i > Len(ras) THEN 0
    ELSE IF ~ras[i].obj THEN i
    ELSE IF /\ Lower(Or(Or(ras[i].AssetName, ras[i].Asset_Name), "")) = Lower(SysName)
            /\ Lower(Or(Or(ras[i].AccountName, ras[i].Account_Name), "")) = Lower(AcctName)
         THEN i
         ELSE P2Scan(ras, i + 1)

\* run: argument checks and the choice between the two bootstraps of STEP 1.
P2Main ==
    /\ prog = "plugin2" /\ pc = "main"
    /\ Goto(IF ~argsOk THEN To(Done, <<Raise("required: host, cacert, system, account")>>)
            ELSE IF override # None
            THEN To([Cur EXCEPT !.pc = "boot", !.reg_id = override], <<>>)
            ELSE To([Cur EXCEPT !.pc = "regs"], <<>>), <<>>)
    /\ UNCHANGED <<log, pages>>

P2ListOn(r) ==
    CASE get_json(r) = "get" -> To(Done, <<Raise("GET failed")>>)
      [] get_json(r) = "nonjson" -> To(Done, <<Raise("Non-JSON")>>)
      [] OTHER ->
            IF r.shape # "list" \/ Len(r.body) = 0
            THEN To(Done, <<Raise("A2ARegistrations returned empty list")>>)
            ELSE IF regIndex < 0 \/ regIndex >= Len(r.body)
            THEN To(Done, <<Raise("bootstrap_registration_index out of range")>>)
            ELSE IF ~r.body[regIndex + 1].obj THEN PlCrash
            ELSE IF Or(r.body[regIndex + 1].Id, r.body[regIndex + 1].ID) = None
            THEN To(Done, <<Raise("could not determine bootstrap registration id")>>)
            ELSE To([Cur EXCEPT !.pc = "boot",
                                !.reg_id = Or(r.body[regIndex + 1].Id, r.body[regIndex + 1].ID)],
                    <<>>)

\* STEP 1: GET A2ARegistrations and the choice of the bootstrap registration.
P2List ==
    /\ prog = "plugin2" /\ pc = "regs"
    /\ \E r \in RegListResps :
          /\ Send(Req("A2ARegistrations", "", "", NoPage, NoLimit), r)
          /\ Goto(P2ListOn(r), <<>>)
    /\ UNCHANGED pages

P2BootOn(r) ==
    CASE get_json(r) = "get" -> To(Done, <<Raise("GET failed")>>)
      [] get_json(r) = "nonjson" -> To(Done, <<Raise("Non-JSON")>>)
      [] OTHER ->
            IF r.shape # "list" \/ Len(r.body) = 0
            THEN To(Done, <<Raise("no bootstrap ApiKey available")>>)
            ELSE IF ~r.body[1].obj THEN PlCrash
            ELSE IF ~Truthy(r.body[1].ApiKey)
            THEN To(Done, <<Raise("no bootstrap ApiKey available")>>)
            ELSE To([Cur EXCEPT !.pc = "a2a", !.idx = 1, !.bootKey = r.body[1].ApiKey], <<>>)

\* STEP 1: GET RetrievableAccounts?page=0&limit=1 of the bootstrap registration.
P2Boot ==
    /\ prog = "plugin2" /\ pc = "boot"
    /\ \E r \in BootResps :
          /\ Send(Req("RetrievableAccounts", reg_id, "", 0, P2BootLimit), r)
          /\ Goto(P2BootOn(r), <<>>)
    /\ UNCHANGED pages

\* STEP 2: one path of _list_regs_via_a2a.
P2A2A ==
    /\ prog = "plugin2" /\ pc = "a2a"
    /\ \E r \in A2AResps :
          /\ Send(A2A(Req(a2a_paths[idx], "", "", NoPage, NoLimit), bootKey), r)
          /\ Goto(IF Len(A2AIds(r)) > 0
                  THEN To([Cur EXCEPT !.pc = "ra", !.idx = 1, !.regs_ids = A2AIds(r)], <<>>)
                  ELSE IF idx < Len(a2a_paths) THEN To([Cur EXCEPT !.idx = idx + 1], <<>>)
                  ELSE To([Cur EXCEPT !.pc = "corelist"], <<>>), <<>>)
    /\ UNCHANGED pages

P2CoreOn(r) ==
    CASE get_json(r) = "get" -> To(Done, <<Raise("GET failed")>>)
      [] get_json(r) = "nonjson" -> To(Done, <<Raise("Non-JSON")>>)
      [] OTHER ->
            IF r.shape # "list" \/ ~AllObj(r.body) THEN PlCrash
            ELSE IF Len(IdsTruthy(r.body, 1)) = 0
            THEN To(Done, <<Raise("could not enumerate registrations")>>)
            ELSE To([Cur EXCEPT !.pc = "ra", !.idx = 1,
                                !.regs_ids = IdsTruthy(r.body, 1)], <<>>)

\* STEP 2: the fallback, GET A2ARegistrations.
P2Core ==
    /\ prog = "plugin2" /\ pc = "corelist"
    /\ \E r \in RegListResps :
          /\ Send(Req("A2ARegistrations", "", "", NoPage, NoLimit), r)
          /\ Goto(P2CoreOn(r), <<>>)
    /\ UNCHANGED pages

\* Fault: the bootstrap key is kept for the secret request.
P2Matched_BootKey(k) == To([Cur EXCEPT !.pc = "cred", !.final_api_key = bootKey], <<>>)

\* Fault: the loop over the registrations is not left on a match.
P2Matched_NoBreak(k) ==
    IF idx < Len(regs_ids) THEN To([Cur EXCEPT !.idx = idx + 1, !.final_api_key = k], <<>>)
    ELSE To([Cur EXCEPT !.pc = "cred", !.final_api_key = k], <<>>)

\* STEP 3 on a match with a key: `final_api_key = k; break`, then
\* `if final_api_key: break` leaves the loop over the registrations.
P2Matched(k) == To([Cur EXCEPT !.pc = "cred", !.final_api_key = k], <<>>)

\* STEP 3 after registration k gave no match.
P2NextReg(k) ==
    IF k < Len(regs_ids) THEN To([Cur EXCEPT !.idx = k + 1], <<>>)
    ELSE To(Done, <<NotFound("raise", "No ApiKey match", None, None)>>)

P2PageOn(r) ==
    CASE get_json(r) = "get" -> To(Done, <<Raise("GET failed")>>)
      [] get_json(r) = "nonjson" -> To(Done, <<Raise("Non-JSON")>>)
      [] OTHER ->
            IF EndOfPages(r) THEN P2NextReg(idx)
            ELSE LET i == P2Scan(r.body, 1) IN
                 IF i = 0 THEN P2NextReg(idx)
                 ELSE IF ~r.body[i].obj THEN PlCrash
                 ELSE IF ~KeyOk(r.body[i].ApiKey)
                 THEN To(Done, <<KeyMissing("raise", regs_ids[idx])>>)
                 ELSE P2Matched(r.body[i].ApiKey)

\* STEP 3: GET RetrievableAccounts?page=0&limit=500 of one registration.
P2Page ==
    /\ prog = "plugin2" /\ pc = "ra"
    /\ \E r \in RAResps(0) :
          /\ Send(Req("RetrievableAccounts", regs_ids[idx], "", 0, P2Limit), r)
          /\ pages' = Append(pages, PageE(regs_ids[idx], 0, r))
          /\ Goto(P2PageOn(r), <<>>)

\* STEP 4: _a2a_get_secret.
P2Cred ==
    /\ prog = "plugin2" /\ pc = "cred"
    /\ \E r \in CredResps :
          /\ Send(A2A(Req("a2a/v4/Credentials", secret_type, "", NoPage, NoLimit),
                      final_api_key), r)
          /\ Goto(IF get_json(r) = "get" THEN To(Done, <<Raise("GET failed")>>)
                  ELSE To(Done, <<Ev("return", "secret")>>), <<>>)
    /\ UNCHANGED pages

Next ==
    \/ CkMain \/ CkRsts \/ CkExchange \/ CkWhoami \/ CkRegById \/ CkFilter \/ CkPage
    \/ ScMain \/ ScWhoami \/ ScEnv \/ ScRegId \/ ScApp \/ ScOwner \/ ScPage
    \/ PlMain \/ PlList \/ PlPage
    \/ P2Main \/ P2List \/ P2Boot \/ P2A2A \/ P2Core \/ P2Page \/ P2Cred

Spec == Init /\ [][Next]_vars

-----------------------------------------------------------------------------
\* Vocabulary of the properties.

\* The run is over: the program exited, returned or raised ("done"), or an
\* exception nobody catches ended it ("crash").
Terminated == pc \in {"done", "crash"}

Finals == SelectSeq(out, IsFinal)

Last(q) == q[Len(q)]

IsSuccess(e) == e.via \in {"jout", "out", "return"}

\* The programs that enumerate one registration page by page.
Single == {"certkey", "scruf", "plugin", "p1"}

\* The RetrievableAccounts requests of the enumeration (plugin2's bootstrap
\* request, which matches nothing, is not one of them).
Enum == SelectSeq(log, LAMBDA e : IsRA(e) /\ e.limit # P2BootLimit)

\* Entry e is a JSON object whose (asset, account), normalized the way the
\* running program normalizes it, is the requested pair.
Matches(e) ==
    /\ e.obj
    /\ CASE prog \in {"certkey", "scruf"} ->
              /\ name_from(e.AssetName, e.Asset_Name) = SysName
              /\ name_from(e.AccountName, e.Account_Name) = AcctName
         [] prog \in Lookups ->
              /\ Or(e.AssetName, e.Asset_Name) = SysName
              /\ Or(e.AccountName, e.Account_Name) = AcctName
         [] OTHER ->
              /\ Lower(Or(Or(e.AssetName, e.Asset_Name), "")) = Lower(SysName)
              /\ Lower(Or(Or(e.AccountName, e.Account_Name), "")) = Lower(AcctName)

\* Positions <<k, i>> (page k of the enumeration, entry i) in enumeration order.
Positions == {<<k, i>> : k \in 1..Len(pages), i \in 1..MaxPageLen + 1}
                \cap {x \in (1..Len(pages)) \X (1..MaxPageLen + 1) : x[2] <= Len(pages[x[1]].body)}

Before(x, y) == x[1] < y[1] \/ (x[1] = y[1] /\ x[2] < y[2])

EntryAt(x) == pages[x[1]].body[x[2]]

\* x is the first position holding an entry with property P.
IsFirst(x, P(_)) == P(EntryAt(x)) /\ \A y \in Positions : Before(y, x) => ~P(EntryAt(y))

KeyedMatch(e) == Matches(e) /\ Truthy(e.ApiKey)

\* An entry at which the scan of a page stops: a match, or a value that is not
\* a JSON object.
Stops(e) == ~e.obj \/ Matches(e)

-----------------------------------------------------------------------------
\* C1: in certkey and scruf, whatever the appliance answers, a run emits
\* exactly one final record: never two, one once the run is over, and the
\* final record is the last thing emitted, after which the program is done.
C1_ExactlyOneFinalRecord ==
    prog \in {"certkey", "scruf"} =>
        /\ Len(Finals) <= 1
        /\ Terminated => Len(Finals) = 1
        /\ Len(Finals) = 1 => pc = "done" /\ IsFinal(Last(out))

-----------------------------------------------------------------------------
\* C2 as stated: when the pages enumerated (every entry of them a JSON
\* object) hold an entry that matches the request and has a non-empty ApiKey,
\* the run ends in a success record with the ApiKey of the first such entry.
C2_FirstKeyedMatchWins ==
    prog \in Single =>
        \A x \in Positions :
            IsFirst(x, KeyedMatch) /\ (\A y \in Positions : EntryAt(y).obj) =>
                /\ pc = "done" /\ Len(out) > 0
                /\ IsSuccess(Last(out)) /\ Last(out).api_key = EntryAt(x).ApiKey

\* C2, amended: when the first entry at which the scan stops is a match with a
\* non-empty ApiKey, the run ends in a success record with that entry's ApiKey;
\* the asset, account and registration id, where the record has them, are the
\* requested pair and the id enumerated.
C2_FirstMatchKeyWins ==
    prog \in Single =>
        \A x \in Positions :
            IsFirst(x, Stops) /\ KeyedMatch(EntryAt(x)) =>
                /\ pc = "done" /\ Len(out) > 0
                /\ IsSuccess(Last(out)) /\ Last(out).api_key = EntryAt(x).ApiKey
                /\ Len(Finals) = 1
                /\ (prog \in Lookups /\ retfmt # "dict") \/
                      /\ Last(out).asset = SysName /\ Last(out).account = AcctName
                      /\ Last(out).reg_id = pages[x[1]].rid
                      /\ \A k \in 1..Len(Enum) : Enum[k].arg = Last(out).reg_id

\* A run that found the key on the second page, behind an entry that does not match.
C2_Witness ==
    /\ prog \in Single /\ pc = "done" /\ Len(pages) = 2
    /\ Len(pages[2].body) = 2 /\ IsFirst(<<2, 2>>, Stops) /\ KeyedMatch(pages[2].body[2])
    /\ IsSuccess(Last(out))

-----------------------------------------------------------------------------
\* A response of the enumeration that is a non-empty list.
NonEmptyList(p) == p.sc = 200 /\ p.shape = "list" /\ Len(p.body) > 0

\* A response of the enumeration that decodes (no failure of the request itself).
Decodes(p) == p.sc = 200 /\ p.shape # "nonjson"

IsFailure(e) == e.via \in {"jerr", "err", "raise"}

\* The indexes into pages of the requests made for registration rid.
PagesOf(rid) == {k \in 1..Len(pages) : pages[k].rid = rid}

\* C3: when every response of the enumeration decodes and no entry of any page
\* is the requested pair, the run ends in a failure naming the requested pair,
\* and for every registration consulted the pages 0, 1, 2, ... were requested
\* in order up to and including the first that is not a non-empty list.
C3_NotFoundAfterAllPages ==
    ( /\ Terminated /\ Len(pages) > 0
      /\ \A k \in 1..Len(pages) : Decodes(pages[k])
      /\ \A x \in Positions : ~Stops(EntryAt(x)) )
    =>
    /\ pc = "done" /\ Len(out) > 0 /\ IsFailure(Last(out))
    /\ Last(out).asset = SysName /\ Last(out).account = AcctName
    /\ \A k \in 1..Len(pages) :
          LET mine == PagesOf(pages[k].rid) IN
          /\ pages[k].page = Cardinality({j \in mine : j < k})
          /\ (\A j \in mine : j <= k) => ~NonEmptyList(pages[k])

\* C4: in the programs that enumerate one registration, request k of the
\* enumeration asks for page k-1 of the same registration; a response that is
\* not a non-empty list is the last one and nothing is requested after it; so
\* N non-empty pages followed by an empty one make exactly N+1 requests.
C4_PageIndexes ==
    prog \in Single =>
        /\ Len(Enum) = Len(pages)
        /\ \A k \in 1..Len(Enum) : Enum[k].page = k - 1 /\ Enum[k].arg = Enum[1].arg
        /\ \A k \in 1..Len(pages) :
              ~NonEmptyList(pages[k]) => k = Len(pages) /\ Terminated
        /\ (Len(pages) > 0 /\ ~NonEmptyList(Last(pages))) =>
              Len(Enum) = Cardinality({k \in 1..Len(pages) : NonEmptyList(pages[k])}) + 1

\* MaxPages non-empty pages without a match, then the empty page, then nothing.
C4_Witness ==
    /\ prog \in Single /\ pc = "done" /\ Len(Enum) = MaxPages + 1
    /\ \A k \in 1..MaxPages : NonEmptyList(pages[k])
    /\ pages[MaxPages + 1].sc = 200 /\ pages[MaxPages + 1].shape = "list"
    /\ Len(pages[MaxPages + 1].body) = 0
    /\ IsFailure(Last(out)) /\ Last(out).asset = SysName

\* The first entry of page k at which the scan stops is a match: <<i>>, else <<>>.
SeenMatch(k) ==
    LET b == pages[k].body
        hit == {i \in 1..Len(b) : Stops(b[i]) /\ \A j \in 1..(i - 1) : ~Stops(b[j])}
    IN  IF \E i \in hit : Matches(b[i]) THEN <<CHOOSE i \in hit : TRUE>> ELSE <<>>

\* C5: a page on which a matching entry was seen is the last page requested,
\* for this and for any later registration, and a success carries the ApiKey
\* of that first match, whatever follows it on the page.
C5_FirstMatchStops ==
    \A k \in 1..Len(pages) :
        SeenMatch(k) # <<>> =>
            LET e == pages[k].body[SeenMatch(k)[1]] IN
            /\ k = Len(pages) /\ Len(Enum) = Len(pages)
            /\ pc \in {"done", "cred"}
            /\ (prog = "plugin2" /\ pc = "cred") => final_api_key = e.ApiKey
            /\ (pc = "done" /\ IsSuccess(Last(out)) /\ prog # "plugin2") =>
                    Last(out).api_key = e.ApiKey
            /\ \A j \in 1..Len(log) :
                    log[j].ep = "a2a/v4/Credentials" => log[j].key = e.ApiKey

\* plugin2 matched in the first of two registrations, on a page whose second
\* entry matches too, with another key; the second registration was not asked.
C5_Witness ==
    /\ prog = "plugin2" /\ pc = "done" /\ Len(regs_ids) = 2 /\ Len(pages) = 1
    /\ Len(pages[1].body) = 2 /\ SeenMatch(1) = <<1>>
    /\ KeyedMatch(pages[1].body[2])
    /\ pages[1].body[2].ApiKey # pages[1].body[1].ApiKey
    /\ IsSuccess(Last(out))

\* C6: when the first match seen has no ApiKey (absent or empty) the run ends
\* there with the "ApiKey missing" failure: no later page or registration is
\* requested and no secret is fetched; and no success carries an empty key.
C6_MissingKeyFails ==
    /\ \A k \in 1..Len(pages) :
          (SeenMatch(k) # <<>> /\ ~Truthy(pages[k].body[SeenMatch(k)[1]].ApiKey)) =>
              /\ k = Len(pages) /\ Len(Enum) = Len(pages)
              /\ pc = "done" /\ Len(Finals) = 1
              /\ IsFailure(Last(out)) /\ Last(out).msg = "match found but ApiKey missing"
              /\ \A j \in 1..Len(log) : log[j].ep # "a2a/v4/Credentials"
    /\ \A j \in 1..Len(out) :
          (IsSuccess(out[j]) /\ prog # "plugin2") => Truthy(out[j].api_key)
    /\ \A j \in 1..Len(log) : log[j].ep = "a2a/v4/Credentials" => Truthy(log[j].key)

\* The first match has an empty ApiKey and the next entry of the page is a
\* match with a key.
C6_Witness ==
    /\ pc = "done" /\ Len(pages) > 0 /\ Len(Last(pages).body) = 2
    /\ SeenMatch(Len(pages)) = <<1>>
    /\ Last(pages).body[1].ApiKey = ""
    /\ KeyedMatch(Last(pages).body[2])
    /\ IsFailure(Last(out))

-----------------------------------------------------------------------------
\* The positions in the log of the requests to ep.
At(ep) == {k \in 1..Len(log) : log[k].ep = ep}

\* A direct fetch that returned a registration: 200 and a JSON object with an id.
Fetched(e) ==
    e.ep = "A2ARegistrations/{id}" /\ e.sc = 200 /\ e.shape = "obj" /\ Truthy(e.id)

\* C7 as stated: with REG_ID set, scruf makes no Token/WhoAmI request.
C7_NoIdentityCallWithOverride ==
    (prog = "scruf" /\ Truthy(override)) => At("Token/WhoAmI") = {}

\* The identity payload carries an id that is fetched directly.
HasDirectId ==
    /\ ident.obj
    /\ \/ prog = "scruf" /\ Truthy(ident.RegistrationId)
       \/ prog = "certkey" /\ Len(CkIds(ident)) > 0

\* C8 as stated: without an override and with a direct id in the identity
\* payload, no filter query is made, whatever the direct fetch returns.
C8_NoFilterWhenDirectIdPresent ==
    (prog \in {"certkey", "scruf"} /\ ~Truthy(override) /\ HasDirectId) =>
        At("A2ARegistrations?filter") = {}

\* C8, amended: without an override and with a direct id in the identity
\* payload, a filter query is made only after every direct fetch of the run,
\* and only when none of them returned a registration.
C8_FilterOnlyAfterDirectFailed ==
    (prog \in {"certkey", "scruf"} /\ ~Truthy(override) /\ HasDirectId) =>
        /\ At("A2ARegistrations/{id}") # {} \/ pc \in {"regid", "regbyid"}
        /\ \A k \in At("A2ARegistrations?filter") :
              \A j \in At("A2ARegistrations/{id}") : j < k /\ ~Fetched(log[j])
        /\ (\E j \in At("A2ARegistrations/{id}") : Fetched(log[j])) =>
              pc \in {"ra", "done", "crash"}

\* The identity offers a direct id and ids to filter by; the direct fetch
\* returned the registration and the run succeeded without a filter query.
C8_Witness ==
    /\ prog \in {"certkey", "scruf"} /\ ~Truthy(override) /\ ident = IdentAll
    /\ \E j \in At("A2ARegistrations/{id}") : Fetched(log[j])
    /\ At("A2ARegistrations?filter") = {}
    /\ pc = "done" /\ IsSuccess(Last(out))

\* C9: in scruf with REG_ID set, when the direct fetch of that registration
\* does not return 200 (or the request fails), no further request is made and
\* the run ends in a failure.
C9_OverrideFailureIsFatal ==
    ( /\ prog = "scruf" /\ Truthy(override) /\ Len(log) >= 3
      /\ log[3].ep = "A2ARegistrations/{id}" /\ log[3].arg = override
      /\ log[3].sc # 200 )
    =>
    /\ Len(log) = 3
    /\ Terminated => (pc = "done" /\ Len(out) > 0 /\ IsFailure(Last(out)))

\* The requests get_auth_identity made, in order.
IdLog == SelectSeq(log, LAMBDA e : e.ep \in {"Me", "WhoAmI", "Token/WhoAmI"})

Skipped(e) == e.sc \in {404, 401, 403}

IsJsonObject(e) == e.sc = 200 /\ e.shape = "obj"

\* The three parts of C10 that do not speak of the failure: the order is Me,
\* WhoAmI, Token/WhoAmI; after a 404, 401 or 403 the next endpoint is queried
\* and nothing final was printed; a JSON object ends the search.
IdentityOrder ==
    /\ \A k \in 1..Len(IdLog) : k <= Len(candidates) /\ IdLog[k].ep = candidates[k]
    /\ \A k \in 1..Len(IdLog) :
          (Skipped(IdLog[k]) /\ k < Len(candidates)) =>
              \/ Len(IdLog) > k
              \/ pc = "whoami" /\ idx = k + 1 /\ Finals = <<>>
    /\ \A k \in 1..Len(IdLog) :
          IsJsonObject(IdLog[k]) => k = Len(IdLog) /\ pc # "whoami"

\* The run ended in get_auth_identity, without an identity.
EndedInIdentity ==
    /\ pc = "done" /\ Len(IdLog) > 0 /\ Last(log) = Last(IdLog)
    /\ \A k \in 1..Len(IdLog) : ~IsJsonObject(IdLog[k])

\* C10 as stated: IdentityOrder, and the run fails in get_auth_identity only
\* when all three endpoints have been queried.
C10_IdentityFallback ==
    prog = "certkey" =>
        /\ IdentityOrder
        /\ EndedInIdentity => Len(IdLog) = Len(candidates)

\* C10, amended: IdentityOrder, and a run that ends in get_auth_identity ends
\* in a failure which is either "Unable to determine authenticated identity",
\* after all three endpoints were queried and none answered a JSON object, or
\* the failure of the last request made: no response, an HTTP error other than
\* 404, 401 and 403, or a body that is not JSON.
C10_IdentityFallbackOrder ==
    prog = "certkey" =>
        /\ IdentityOrder
        /\ EndedInIdentity =>
              /\ Len(Finals) = 1 /\ IsFailure(Last(out))
              /\ IF Last(out).msg = "Unable to determine authenticated identity via self endpoints"
                 THEN /\ Len(IdLog) = Len(candidates)
                      /\ \A k \in 1..Len(IdLog) :
                            Skipped(IdLog[k]) \/ (IdLog[k].sc = 200 /\ IdLog[k].shape \notin {"obj", "nonjson"})
                 ELSE LET l == Last(IdLog) IN
                      /\ ~Skipped(l)
                      /\ l.sc = 0 \/ l.sc >= 400 \/ l.shape = "nonjson"

\* Me answered 404, WhoAmI 403, Token/WhoAmI a JSON object, and the run went on.
C10_Witness ==
    /\ prog = "certkey" /\ Len(IdLog) = 3
    /\ IdLog[1].sc = 404 /\ IdLog[2].sc = 403 /\ IsJsonObject(IdLog[3])
    /\ ident # NoIdent /\ pc = "done" /\ IsSuccess(Last(out))

-----------------------------------------------------------------------------
\* One step of a resolution plan: the request and the source it reports.
Step(ep, rel, arg, src) == [ep |-> ep, rel |-> rel, arg |-> arg, src |-> src]

\* The strategies of scruf that apply to this run, in the order of the header.
ScPlan ==
    LET app == Or(Or(ident.Application_Id, ident.ApplicationId), ident.AppId)
        own == Or(Or(ident.Id, ident.UserId), ident.ID)
    IN  (IF Truthy(override)
         THEN <<Step("A2ARegistrations/{id}", "", override, "env(REG_ID)")>> ELSE <<>>)
     \o (IF ident.obj /\ Truthy(ident.RegistrationId)
         THEN <<Step("A2ARegistrations/{id}", "", ident.RegistrationId,
                     "Token/WhoAmI.RegistrationId")>> ELSE <<>>)
     \o (IF ident.obj /\ Truthy(app)
         THEN <<Step("A2ARegistrations?filter", "Application", app, "Application/Id")>>
         ELSE <<>>)
     \o (IF ident.obj /\ Truthy(own)
         THEN <<Step("A2ARegistrations?filter", "Owner", own, "Owner/Id")>> ELSE <<>>)

\* The strategies of certkey: every direct fetch, then every filter.
CkPlan ==
    IF ~ident.obj THEN <<>>
    ELSE [k \in 1..Len(CkIds(ident)) |->
             Step("A2ARegistrations/{id}", "", CkIds(ident)[k], None)]
      \o [k \in 1..Len(CkFilters(ident)) |->
             Step("A2ARegistrations?filter", CkFilters(ident)[k].rel,
                  CkFilters(ident)[k].arg, None)]

\* The requests of registration resolution, in order.
ResLog ==
    SelectSeq(log, LAMBDA e : e.ep \in {"A2ARegistrations/{id}", "A2ARegistrations?filter"})

\* A resolution request whose response carries a registration with an id.
Produced(e) ==
    \/ Fetched(e)
    \/ e.ep = "A2ARegistrations?filter" /\ e.sc = 200 /\ e.shape = "list" /\ Truthy(e.id)

\* C11: the resolution requests of a run are the first steps of its plan
\* (override, direct fetch, filters; in scruf Application/Id before Owner/Id),
\* in that order and none left out; every request but the last one produced no
\* registration; and the source scruf reports is that of the last step taken.
C11_StrategyOrder ==
    prog \in {"certkey", "scruf"} =>
        LET plan == IF prog = "scruf" THEN ScPlan ELSE CkPlan IN
        /\ Len(ResLog) <= Len(plan)
        /\ \A k \in 1..Len(ResLog) :
              /\ ResLog[k].ep = plan[k].ep /\ ResLog[k].rel = plan[k].rel
              /\ ResLog[k].arg = plan[k].arg
        /\ \A k \in 1..(Len(ResLog) - 1) : ~Produced(ResLog[k])
        /\ (\E k \in 1..Len(log) : IsRA(log[k])) \/ pc = "ra" =>
              /\ Len(ResLog) > 0
              /\ prog = "certkey" => Produced(Last(ResLog)) /\ reg_id = Last(ResLog).id
              /\ prog = "scruf" => source = plan[Len(ResLog)].src
        /\ (prog = "scruf" /\ pc = "done" /\ Len(out) > 0 /\ IsSuccess(Last(out))) =>
              Last(out).source = plan[Len(ResLog)].src

\* scruf with REG_ID set and an identity offering every strategy: the override
\* fetch, the direct fetch and the Application/Id filter failed, the Owner/Id
\* filter produced the registration and the success names it.
C11_Witness ==
    /\ prog = "scruf" /\ Truthy(override) /\ Len(ResLog) = 4
    /\ ResLog[3].rel = "Application" /\ ResLog[4].rel = "Owner"
    /\ pc = "done" /\ IsSuccess(Last(out)) /\ Last(out).source = "Owner/Id"

-----------------------------------------------------------------------------
\* The reference rule of normalization: the flat field when it is present
\* (the empty string included), else the Name of the nested object.
RefMatch(e) ==
    /\ e.obj
    /\ (IF e.AssetName # None THEN e.AssetName ELSE e.Asset_Name) = SysName
    /\ (IF e.AccountName # None THEN e.AccountName ELSE e.Account_Name) = AcctName

RefStops(e) == ~e.obj \/ RefMatch(e)

\* C12: in the programs that scan with name_from or with `flat or nested`, the
\* entry selected is the one the reference rule selects: a success carries the
\* key of the first entry matching under the rule, and when that entry has a
\* key the run succeeds with it.
C12_NormalizationAgrees ==
    prog \in Single =>
        /\ \A x \in Positions :
              (IsFirst(x, RefStops) /\ RefMatch(EntryAt(x)) /\ Truthy(EntryAt(x).ApiKey)) =>
                  pc = "done" /\ IsSuccess(Last(out)) /\ Last(out).api_key = EntryAt(x).ApiKey
        /\ (pc = "done" /\ Len(out) > 0 /\ IsSuccess(Last(out))) =>
              \E x \in Positions :
                  /\ IsFirst(x, RefStops) /\ RefMatch(EntryAt(x))
                  /\ Last(out).api_key = EntryAt(x).ApiKey

-----------------------------------------------------------------------------
\* C13: a 401 or 403 answer to a RetrievableAccounts request is the last
\* request of the run, which ends there with one failure that is the failure
\* of that request: neither the not-found failure of an empty page nor a move
\* to the next registration.
C13_DeniedIsTerminal ==
    \A k \in 1..Len(log) :
        (IsRA(log[k]) /\ log[k].sc \in {401, 403}) =>
            /\ k = Len(log) /\ pc = "done"
            /\ Len(Finals) = 1 /\ IsFailure(Last(out))
            /\ Last(out).msg \in {"RetrievableAccounts forbidden", "GET failed"}
            /\ Last(out).asset = None

\* plugin2 with two registrations to search: the first one answered 403 and
\* the second one was not asked.
C13_Witness ==
    /\ prog = "plugin2" /\ Len(regs_ids) = 2 /\ Len(pages) = 1
    /\ pages[1].sc = 403 /\ pages[1].rid = regs_ids[1]
    /\ IsRA(Last(log)) /\ Last(log).limit = P2Limit
    /\ pc = "done" /\ IsFailure(Last(out))

-----------------------------------------------------------------------------
\* plugin2: the positions in the log of the bootstrap request of STEP 1, of
\* the A2A listings of STEP 2, of the Core listing of STEP 2, and of STEP 3.
BootAt == {k \in 1..Len(log) : IsRA(log[k]) /\ log[k].limit = P2BootLimit}
A2AAt == {k \in 1..Len(log) : log[k].ep \in {"a2a/v4/Registrations", "a2a/v4/registrations"}}
CoreAt == {k \in 1..Len(log) : log[k].ep = "A2ARegistrations" /\ \E b \in BootAt : b < k}
Step3At == {k \in 1..Len(log) : IsRA(log[k]) /\ log[k].limit = P2Limit}

\* The ids a listing yields: Id (or ID) of each entry that has one.
ListedIds(e) ==
    LET has == SelectSeq(e.regs, LAMBDA x : Or(x.Id, x.ID) # None)
    IN  [k \in 1..Len(has) |-> Or(has[k].Id, has[k].ID)]

\* An A2A listing yields ids: it decodes to a non-empty list of objects of
\* which at least one has an id.
Yields(e) ==
    /\ e.sc = 200 /\ e.shape = "list" /\ Len(e.regs) > 0
    /\ \A i \in 1..Len(e.regs) : e.regs[i].obj
    /\ Len(ListedIds(e)) > 0

\* The k-th smallest element of a finite set of numbers.
Nth(S, k) == CHOOSE x \in S : Cardinality({y \in S : y < x}) = k - 1

\* C14: in plugin2 the second A2A path is asked only when the first yielded no
\* ids; the Core listing of STEP 2 is asked if and only if neither path
\* yielded ids; when a path yields ids STEP 3 asks exactly those ids, in the
\* order listed; and when the Core listing yields no id either, the run ends
\* in a failure without a STEP 3 request.
C14_CoreListingOnlyAsFallback ==
    prog = "plugin2" =>
        /\ Cardinality(A2AAt) <= 2
        /\ \A k \in A2AAt : \A j \in A2AAt : j < k =>
              /\ ~Yields(log[j])
              /\ log[j].ep = "a2a/v4/Registrations" /\ log[k].ep = "a2a/v4/registrations"
        /\ \A k \in A2AAt : log[k].key = bootKey /\ Truthy(bootKey)
        /\ (CoreAt # {} \/ pc = "corelist") <=>
              (Cardinality(A2AAt) = 2 /\ \A k \in A2AAt : ~Yields(log[k]))
        /\ Cardinality(CoreAt) <= 1
        /\ \A k \in A2AAt : Yields(log[k]) =>
              /\ regs_ids = ListedIds(log[k])
              /\ Cardinality(Step3At) <= Len(ListedIds(log[k]))
              /\ \A n \in 1..Cardinality(Step3At) :
                    /\ log[Nth(Step3At, n)].arg = ListedIds(log[k])[n]
                    /\ Nth(Step3At, n) > k
        /\ \A k \in CoreAt :
              ~(\E i \in 1..Len(log[k].regs) :
                    log[k].regs[i].obj /\ Truthy(Or(log[k].regs[i].Id, log[k].regs[i].ID))) =>
                  /\ Step3At = {} /\ Terminated
                  /\ pc = "done" => IsFailure(Last(out))
        /\ Step3At # {} => \/ \E k \in A2AAt : Yields(log[k])
                           \/ CoreAt # {}

\* The first A2A path failed, the second listed registrations 8 and 7, and
\* STEP 3 asked 8 and then 7 without a Core listing in between.
C14_Witness ==
    /\ prog = "plugin2" /\ Cardinality(A2AAt) = 2 /\ CoreAt = {}
    /\ log[Nth(A2AAt, 1)].sc = 0
    /\ Yields(log[Nth(A2AAt, 2)]) /\ ListedIds(log[Nth(A2AAt, 2)]) = <<"8", "7">>
    /\ Cardinality(Step3At) = 2
    /\ log[Nth(Step3At, 1)].arg = "8" /\ log[Nth(Step3At, 2)].arg = "7"
    /\ pc = "done"

-----------------------------------------------------------------------------
\* The secret kind plugin2 is asked for: the first positional term, else the
\* secret_type keyword, else "Password".
RequestedKind ==
    IF Len(terms) > 0 THEN terms[1]
    ELSE IF secretKw # None /\ secretKw # "" THEN secretKw
    ELSE "Password"

\* C15: plugin2 sends the Credentials request at most once, as the last
\* request of the run, after STEP 3 stopped at a matching entry with a
\* non-empty ApiKey; the request is authorized with that entry's ApiKey, not
\* with the bootstrap key, and asks for the requested kind.
C15_SecretRequest ==
    prog = "plugin2" =>
        /\ Cardinality(At("a2a/v4/Credentials")) <= 1
        /\ \A k \in At("a2a/v4/Credentials") :
              /\ k = Len(log) /\ Step3At # {} /\ \A j \in Step3At : j < k
              /\ \E x \in Positions :
                    /\ IsFirst(x, Stops) /\ KeyedMatch(EntryAt(x))
                    /\ x[1] = Len(pages)
                    /\ log[k].key = EntryAt(x).ApiKey
              /\ log[k].arg = RequestedKind
              /\ Terminated
        /\ (pc = "done" /\ Len(out) > 0 /\ IsSuccess(Last(out))) =>
              At("a2a/v4/Credentials") # {}

\* The secret was fetched with the key of the matched entry, which is not the
\* bootstrap key, for the kind given as positional term.
C15_Witness ==
    /\ prog = "plugin2" /\ At("a2a/v4/Credentials") # {}
    /\ Last(log).key # bootKey /\ Truthy(bootKey)
    /\ Len(terms) > 0 /\ Last(log).arg = terms[1]
    /\ pc = "done" /\ IsSuccess(Last(out))

-----------------------------------------------------------------------------
\* The values a server-supplied token object can carry under "error".
ServerErrors == {o.error : o \in StsObjs \cup LoginObjs} \ {None}

\* C16: every failure record of the command-line programs has found = false
\* and, under "error", the message of the program (not a value of the server).
C16_FailureRecordShape ==
    prog \in {"certkey", "scruf"} =>
        \A j \in 1..Len(out) :
            (IsFinal(out[j]) /\ ~IsSuccess(out[j])) =>
                /\ out[j].found = "False"
                /\ out[j].msg # None /\ out[j].msg \notin ServerErrors

-----------------------------------------------------------------------------
\* An entry whose names equal the request character for character.
ExactMatch(e) ==
    /\ e.obj
    /\ Or(Or(e.AssetName, e.Asset_Name), "") = SysName
    /\ Or(Or(e.AccountName, e.Account_Name), "") = AcctName

\* C17: the key plugin2 takes in STEP 3 is the ApiKey of an entry whose names
\* equal the request exactly; an entry that differs in letter case only is
\* not selected.
C17_ExactCaseMatch ==
    prog = "plugin2" =>
        /\ final_api_key # None =>
              \E x \in Positions :
                  ExactMatch(EntryAt(x)) /\ EntryAt(x).ApiKey = final_api_key
        /\ \A k \in At("a2a/v4/Credentials") :
              \E x \in Positions :
                  ExactMatch(EntryAt(x)) /\ EntryAt(x).ApiKey = log[k].key

-----------------------------------------------------------------------------
\* The filter queries of a run, and those of its plan.
FLog == SelectSeq(log, LAMBDA e : e.ep = "A2ARegistrations?filter")

PlanFilters ==
    SelectSeq(IF prog = "scruf" THEN ScPlan ELSE CkPlan,
              LAMBDA s : s.ep = "A2ARegistrations?filter")

\* The answer to a filter query is a non-empty list headed by a JSON object.
HasHead(e) == e.sc = 200 /\ e.shape = "list" /\ Len(e.regs) > 0 /\ e.regs[1].obj

\* The answer moves the search on: 401, 403 or an empty list.
MovesOn(e) == e.sc \in {401, 403} \/ (e.sc = 200 /\ e.shape = "list" /\ Len(e.regs) = 0)

\* Filter query k was not the last of the plan and the next one was made or is
\* about to be made; or it was the last and the run ended unresolved.
WentOn(k) ==
    IF k < Len(PlanFilters)
    THEN Len(FLog) > k \/ (Len(FLog) = k /\ pc \in {"filter", "app", "owner"})
    ELSE /\ Len(FLog) = k /\ pc = "done" /\ IsFailure(Last(out))
         /\ \A j \in 1..Len(log) : ~IsRA(log[j])

\* Filter query k ended resolution with the registration heading its answer.
Won(k) ==
    /\ k = Len(FLog) /\ pc \in {"ra", "done"}
    /\ reg_id = Or(FLog[k].regs[1].Id, FLog[k].regs[1].ID)
    /\ \A j \in 1..Len(log) : IsRA(log[j]) => log[j].arg = reg_id

\* The filter queries are those of the plan, in its order.
FilterOrder ==
    /\ Len(FLog) <= Len(PlanFilters)
    /\ \A k \in 1..Len(FLog) :
          FLog[k].rel = PlanFilters[k].rel /\ FLog[k].arg = PlanFilters[k].arg

\* C18 as stated: filters in their order; the first non-empty list ends
\* resolution with the registration at its head; 401, 403 and an empty list
\* move on to the next filter.
C18_FirstNonEmptyListWins ==
    prog \in {"certkey", "scruf"} =>
        /\ FilterOrder
        /\ \A k \in 1..Len(FLog) :
              /\ HasHead(FLog[k]) => Won(k)
              /\ MovesOn(FLog[k]) => WentOn(k)

\* The head of the list is a registration the program takes: in certkey one
\* with a non-empty Id (or ID), in scruf a non-empty object.
Usable(r) ==
    IF prog = "certkey" THEN Truthy(Or(r.Id, r.ID)) ELSE RegTruthy(r)

\* C18, amended: filters in their order; the first non-empty list whose head
\* the program takes ends resolution with that registration; 401, 403, an
\* empty list and a list whose head it does not take move on to the next filter.
C18_FirstUsableHeadWins ==
    prog \in {"certkey", "scruf"} =>
        /\ FilterOrder
        /\ \A k \in 1..Len(FLog) :
              /\ (HasHead(FLog[k]) /\ Usable(FLog[k].regs[1])) => Won(k)
              /\ (HasHead(FLog[k]) /\ ~Usable(FLog[k].regs[1])) => WentOn(k)
              /\ MovesOn(FLog[k]) => WentOn(k)

\* certkey with three filters: the first answered 403, the second an empty
\* list, the third a list headed by registration 7, which was then enumerated.
C18_Witness ==
    /\ prog = "certkey" /\ Len(FLog) = 3
    /\ FLog[1].sc = 403 /\ MovesOn(FLog[2]) /\ FLog[2].sc = 200
    /\ HasHead(FLog[3]) /\ FLog[3].regs[1].Id = "7"
    /\ reg_id = "7" /\ pc = "done" /\ IsRA(Last(log))

-----------------------------------------------------------------------------
\* C19: no request is sent twice in a run: any two requests differ in the
\* endpoint or in its id, filter, page or limit parameters.
C19_NoRepeatedRequest ==
    \A j \in 1..Len(log) : \A k \in 1..Len(log) :
        j < k => ReqOf(log[j]) # ReqOf(log[k])

-----------------------------------------------------------------------------
\* C20: in the lookup plugins, when the registrations listed are a non-empty
\* list, an index outside 0 .. len-1 (every negative index included) ends the
\* run with the "out of range" failure before any RetrievableAccounts request,
\* and an index inside selects the registration at that position.
C20_ZeroBasedIndex ==
    ( /\ prog \in {"plugin", "p1", "plugin2"} /\ override = None
      /\ Len(log) >= 1 /\ log[1].ep = "A2ARegistrations"
      /\ log[1].sc = 200 /\ log[1].shape = "list" /\ Len(log[1].regs) > 0 )
    =>
    IF regIndex \in 0..(Len(log[1].regs) - 1)
    THEN \A k \in 1..Len(log) :
            (IsRA(log[k]) /\ \A j \in 1..(k - 1) : ~IsRA(log[j])) =>
                log[k].arg = Or(log[1].regs[regIndex + 1].Id, log[1].regs[regIndex + 1].ID)
    ELSE /\ Len(log) = 1 /\ pc = "done" /\ IsFailure(Last(out))
         /\ Last(out).msg \in {"registration_index out of range",
                               "bootstrap_registration_index out of range"}

-----------------------------------------------------------------------------
\* C21: every RetrievableAccounts request of scruf names a registration id
\* that is not null and is the Id (or ID) carried by the answer to the last
\* resolution request; a registration without an Id is never enumerated.
C21_EnumeratedIdIsRegistrationId ==
    prog = "scruf" =>
        \A k \in 1..Len(log) :
            IsRA(log[k]) =>
                /\ log[k].arg # None
                /\ Len(ResLog) > 0 /\ Produced(Last(ResLog))
                /\ log[k].arg = Last(ResLog).id

=============================================================================
